---- MODULE Spec2Model ----
(***************************************************************************)
(* ALN Memory Scanner utility scripts: the Arduino asset converter         *)
(* (convert-arduino-assets.py), the QR generator (generate-qr.py) and the  *)
(* QR part of the sync helper (sync.py), as state machines over one        *)
(* filesystem.                                                             *)
(*                                                                         *)
(* Strings are sequences of atoms (one-character strings for token ids,    *)
(* longer atoms for fixed directory prefixes and extensions), so that      *)
(* f"assets/images/{name}.BMP" is <<"assets/images/">> \o name \o <<".BMP">>*)
(* and str.upper / str.replace are computed atom by atom.                  *)
(***************************************************************************)
EXTENDS Integers, Sequences, FiniteSets, TLC

VARIABLES
    fs,               \* the filesystem: path -> file content
    rootTokensJson,   \* the file tokens.json
    dataTokensJson,   \* the file data/tokens.json
    ffmpegInstalled,  \* whether `which ffmpeg` succeeds
    qrBad,            \* token ids whose QR image cannot be produced or saved
    pc,               \* position of the running script
    tokens,           \* converter: the loaded token table
    i,                \* converter: index of the running for loop
    missing_images,   \* converter: missing_images
    ffmpeg_available, \* converter: ffmpeg_available
    log,              \* what the running script did, in order
    fsBefore,         \* the filesystem when the last run started
    tableBefore,      \* the token file the last run started from
    argv,             \* sync.py: the flags of the command line
    git,              \* sync.py: what the git commands of the run meet
    has_local_changes,\* sync.py: has_local_changes of sync_submodule
    title,            \* create_placeholders.py: the text that is wrapped
    words,            \* create_placeholders.py: words
    lines,            \* create_placeholders.py: lines
    current_line,     \* create_placeholders.py: current_line
    lastOp            \* the last thing that happened: <<what, its argument, "first" or
                      \* "again" (a run that repeats the run just before it)>>

vars == <<fs, rootTokensJson, dataTokensJson, ffmpegInstalled, qrBad, pc, tokens,
          i, missing_images, ffmpeg_available, log, fsBefore, tableBefore,
          argv, git, has_local_changes, title, words, lines, current_line, lastOp>>

convVars == <<tokens, i, missing_images, ffmpeg_available>>
histVars == <<tableBefore, lastOp>>
syncVars == <<argv, git, has_local_changes>>
wrapVars == <<title, words, lines, current_line>>

----------------------------------------------------------------------------
(* Bounds of the model *)

MaxSrc == 2        \* most source files on disk in the candidate-search worlds
MaxTokens == 2     \* most tokens of a table
MaxInitQR == 1     \* most files in qr-codes/ before the first run

----------------------------------------------------------------------------
(* Strings *)

Alphabet == {"a", "A", "_", ":"}

UpperChar(c) == IF c = "a" THEN "A" ELSE c
LowerChar(c) == IF c = "A" THEN "a" ELSE c

RECURSIVE Upper(_)
Upper(s) == IF s = <<>> THEN <<>> ELSE <<UpperChar(Head(s))>> \o Upper(Tail(s))

RECURSIVE Lower(_)
Lower(s) == IF s = <<>> THEN <<>> ELSE <<LowerChar(Head(s))>> \o Lower(Tail(s))

\* str.replace(old, new) for a one-character old; new is a string
RECURSIVE Replace(_, _, _)
Replace(s, old, new) ==
    IF s = <<>> THEN <<>>
    ELSE (IF Head(s) = old THEN new ELSE <<Head(s)>>) \o Replace(Tail(s), old, new)

\* the token ids of one character
Ids == {<<c>> : c \in Alphabet}

SeqToSet(s) == {s[k] : k \in 1..Len(s)}

\* the subsets of S with at most n elements
RECURSIVE SubsetsUpTo(_, _)
SubsetsUpTo(S, n) ==
    IF n = 0 THEN {{}}
    ELSE LET smaller == SubsetsUpTo(S, n - 1)
         IN  smaller \cup {T \cup {x} : T \in smaller, x \in S}

----------------------------------------------------------------------------
(* Files and token tables *)

\* kind: the format of the file; made: what wrote it; fill, text: what was drawn
\* on it (for a QR image, text is the encoded payload)
File(kind, made, w, h, fill, text) ==
    [kind |-> kind, made |-> made, w |-> w, h |-> h, fill |-> fill, text |-> text]

Exists(files, path) == path \in DOMAIN files
WriteFile(files, path, content) == (path :> content) @@ files
RemoveFile(files, path) == [p \in (DOMAIN files) \ {path} |-> files[p]]
NoFiles == [p \in {} |-> File("none", "none", 0, 0, <<0, 0, 0>>, <<>>)]

\* a source bitmap or sound of the Arduino project
SourceFile == File("source", "arduino", 1600, 1200, <<0, 0, 0>>, <<>>)
\* an image an earlier run converted from a bitmap that has since gone
OldImage == File("JPEG", "earlier", 400, 300, <<0, 0, 0>>, <<>>)
OldAudio == File("MP3", "earlier", 0, 0, <<0, 0, 0>>, <<>>)
\* what an interrupted write leaves behind
Truncated == File("truncated", "failed write", 0, 0, <<0, 0, 0>>, <<>>)

NoField == <<"#absent">>   \* the key is not in the token's dict
Null == <<"#null">>        \* None, written as JSON null
NoPath == <<"#nopath">>

Entry(mtype, image, audio) == [mtype |-> mtype, image |-> image, audio |-> audio]

Table(keys, data) == [exists |-> TRUE, keys |-> keys, data |-> data]
NoTable == [exists |-> FALSE, keys |-> <<>>, data |-> [t \in {} |-> Entry(NoField, NoField, NoField)]]
Keys(table) == SeqToSet(table.keys)

ImageOut(token_id) == <<"assets/images/">> \o token_id \o <<".jpg">>
AudioOut(token_id) == <<"assets/audio/">> \o token_id \o <<".mp3">>

----------------------------------------------------------------------------
(* convert-arduino-assets.py: candidate search *)

possible_names(token_id) ==
    << token_id,
       Upper(token_id),
       Lower(token_id),
       Replace(token_id, "_", <<>>),
       Replace(token_id, ":", <<>>),
       Replace(token_id, ":", <<"_">>) >>

bmp_paths(name) ==
    << <<"assets/images/">> \o name \o <<".BMP">>,
       <<"assets/images/">> \o name \o <<".bmp">>,
       <<"ARDUINO/images/">> \o name \o <<".BMP">>,
       <<"ARDUINO/images/">> \o name \o <<".bmp">>,
       <<"ARDUINO/">> \o name \o <<".BMP">>,
       <<"ARDUINO/">> \o name \o <<".bmp">>,
       <<"ARDUINO/SD_Card/">> \o name \o <<".BMP">>,
       <<"ARDUINO/SD_Card/">> \o name \o <<".bmp">> >>

wav_paths(name) ==
    << <<"assets/audio/">> \o name \o <<".WAV">>,
       <<"assets/audio/">> \o name \o <<".wav">>,
       <<"ARDUINO/audio/">> \o name \o <<".WAV">>,
       <<"ARDUINO/audio/">> \o name \o <<".wav">>,
       <<"ARDUINO/">> \o name \o <<".WAV">>,
       <<"ARDUINO/">> \o name \o <<".wav">>,
       <<"ARDUINO/SD_Card/">> \o name \o <<".WAV">>,
       <<"ARDUINO/SD_Card/">> \o name \o <<".wav">> >>

PathsOf(kind, name) == IF kind = "image" THEN bmp_paths(name) ELSE wav_paths(name)

\* the inner loop: for path in paths: if os.path.exists(path): ... break
RECURSIVE SearchPaths(_, _, _)
SearchPaths(paths, d, files) ==
    IF d > Len(paths) THEN NoPath
    ELSE IF Exists(files, paths[d]) THEN paths[d]
    ELSE SearchPaths(paths, d + 1, files)

\* the outer loop: for name in possible_names: ... if source_found: break
RECURSIVE SearchNames(_, _, _, _)
SearchNames(kind, names, s, files) ==
    IF s > Len(names) THEN NoPath
    ELSE LET hit == SearchPaths(PathsOf(kind, names[s]), 1, files)
         IN  IF hit # NoPath THEN hit ELSE SearchNames(kind, names, s + 1, files)

\* a slip that nests the loops the other way round: directory first
RECURSIVE SearchDirsFirst(_, _, _, _, _)
SearchDirsFirst(kind, names, s, d, files) ==
    IF d > 8 THEN NoPath
    ELSE IF s > Len(names) THEN SearchDirsFirst(kind, names, 1, d + 1, files)
    ELSE IF Exists(files, PathsOf(kind, names[s])[d]) THEN PathsOf(kind, names[s])[d]
    ELSE SearchDirsFirst(kind, names, s + 1, d, files)

FindSourceDirsFirst(kind, token_id, files) ==
    SearchDirsFirst(kind, possible_names(token_id), 1, 1, files)

FindSource(kind, token_id, files) ==
    SearchNames(kind, possible_names(token_id), 1, files)

----------------------------------------------------------------------------
(* convert-arduino-assets.py: the run *)

\* sync.py is not running; nothing is being wrapped
NoGit == [submodule |-> FALSE, dirty |-> {}, failing |-> {}, remote |-> NoTable]
SyncIdle == argv = {} /\ git = NoGit /\ has_local_changes = FALSE
WrapIdle == title = <<>> /\ words = <<>> /\ lines = <<>> /\ current_line = <<>>

Event(ev, tok, path, res) == [ev |-> ev, tok |-> tok, path |-> path, res |-> res]

\* the results of one conversion: done, failed leaving the output path alone,
\* failed leaving a truncated file at the output path
Outcomes == {"ok", "error", "error_truncated"}

ThumbnailSize == 800
PlaceholderSize == 800

\* img.thumbnail((800, 800)): shrink to fit, keep the aspect ratio, never enlarge
Thumbnail(w, h) ==
    IF w <= ThumbnailSize /\ h <= ThumbnailSize THEN <<w, h>>
    ELSE IF w >= h THEN <<ThumbnailSize, (h * ThumbnailSize) \div w>>
    ELSE <<(w * ThumbnailSize) \div h, ThumbnailSize>>

ConvertedImage(src) ==
    File("JPEG", "convert", Thumbnail(src.w, src.h)[1], Thumbnail(src.w, src.h)[2],
         <<0, 0, 0>>, <<>>)

ConvertedAudio == File("MP3", "convert", 0, 0, <<0, 0, 0>>, <<>>)

\* what a conversion to `out` leaves on disk
AfterConversion(files, out, content, outcome) ==
    CASE outcome = "ok" -> WriteFile(files, out, content)
      [] outcome = "error" -> files
      [] outcome = "error_truncated" -> WriteFile(files, out, Truncated)

\* the colors dict of the converter
colors ==
    [Personal |-> <<79, 189, 186>>,
     Technical |-> <<126, 200, 227>>,
     Business |-> <<231, 76, 60>>,
     Military |-> <<149, 165, 166>>,
     Intelligence |-> <<44, 62, 80>>,
     Test |-> <<100, 100, 100>>]

Gray == <<136, 136, 136>>

\* token_data.get('SF_MemoryType', 'Unknown')
MemoryTypeOf(token_data) ==
    IF token_data.mtype = NoField THEN "Unknown" ELSE token_data.mtype[1]

\* colors.get(memory_type, (136, 136, 136))
PlaceholderColor(token_data) ==
    IF MemoryTypeOf(token_data) \in DOMAIN colors
    THEN colors[MemoryTypeOf(token_data)]
    ELSE Gray

MakePlaceholder(token_id, token_data) ==
    File("JPEG", "placeholder", PlaceholderSize, PlaceholderSize,
         PlaceholderColor(token_data), token_id)

\* a slip that draws the placeholder whether or not the file is there
SkipPlaceholderNever(files, out) == FALSE

\* if os.path.exists(output_path): continue
SkipPlaceholder(files, out) == Exists(files, out)

\* a slip that lets the exception of a failed conversion escape
PcAfterImageUncaught(outcome) == IF outcome = "ok" THEN "c_images" ELSE "c_crashed"

\* try: ... except Exception as e: print(...)
PcAfterImage(outcome) == "c_images"

\* if result == 0: ... else: print(...)
PcAfterAudio(result) == "c_audio"

\* a slip that keeps the old value when the MP3 is missing, as the image branch does
UpdatedAudioKeepsOld(token_id, token_data, files) ==
    IF Exists(files, AudioOut(token_id)) THEN AudioOut(token_id) ELSE token_data.audio

UpdatedAudio(token_id, token_data, files) ==
    IF Exists(files, AudioOut(token_id)) THEN AudioOut(token_id) ELSE Null

UpdatedImage(token_id, token_data, files) ==
    IF Exists(files, ImageOut(token_id)) THEN ImageOut(token_id) ELSE token_data.image

\* a slip that builds the entry anew from the two paths and drops the rest
UpdatedEntryPathsOnly(token_id, token_data, files) ==
    Entry(NoField, UpdatedImage(token_id, token_data, files),
          UpdatedAudio(token_id, token_data, files))

\* token_data['image'] = ...; token_data['audio'] = ...: the dict is updated in place
UpdatedEntry(token_id, token_data, files) ==
    [token_data EXCEPT !.image = UpdatedImage(token_id, token_data, files),
                       !.audio = UpdatedAudio(token_id, token_data, files)]

CLoad ==
    /\ pc = "c_start"
    /\ IF rootTokensJson.exists
       THEN /\ tokens' = rootTokensJson
            /\ pc' = "c_images"
       ELSE /\ tokens' = tokens
            /\ pc' = "c_exit1"
    /\ i' = 1
    /\ UNCHANGED <<fs, rootTokensJson, dataTokensJson, ffmpegInstalled, qrBad,
                   missing_images, ffmpeg_available, log, fsBefore, histVars,
                   syncVars, wrapVars>>

CImage ==
    /\ pc = "c_images"
    /\ i <= Len(tokens.keys)
    /\ LET token_id == tokens.keys[i]
           bmp_path == FindSource("image", token_id, fs)
       IN  IF bmp_path # NoPath
           THEN \E outcome \in Outcomes :
                   /\ fs' = AfterConversion(fs, ImageOut(token_id),
                                            ConvertedImage(fs[bmp_path]), outcome)
                   /\ log' = Append(log, Event("image", token_id, bmp_path, outcome))
                   /\ pc' = PcAfterImage(outcome)
                   /\ missing_images' = missing_images
           ELSE /\ missing_images' = Append(missing_images, token_id)
                /\ log' = Append(log, Event("image", token_id, NoPath, "missing"))
                /\ UNCHANGED <<fs, pc>>
    /\ i' = i + 1
    /\ UNCHANGED <<rootTokensJson, dataTokensJson, ffmpegInstalled, qrBad, tokens,
                   ffmpeg_available, fsBefore, histVars,
                   syncVars, wrapVars>>

CImagesDone ==
    /\ pc = "c_images"
    /\ i > Len(tokens.keys)
    /\ pc' = IF missing_images # <<>> THEN "c_placeholders" ELSE "c_audio_check"
    /\ i' = 1
    /\ UNCHANGED <<fs, rootTokensJson, dataTokensJson, ffmpegInstalled, qrBad, tokens,
                   missing_images, ffmpeg_available, log, fsBefore, histVars,
                   syncVars, wrapVars>>

CPlaceholder ==
    /\ pc = "c_placeholders"
    /\ i <= Len(missing_images)
    /\ LET token_id == missing_images[i]
           output_path == ImageOut(token_id)
       IN  IF token_id \notin Keys(tokens)
           THEN UNCHANGED <<fs, log, pc>>
           ELSE IF SkipPlaceholder(fs, output_path)
           THEN /\ log' = Append(log, Event("placeholder", token_id, output_path, "exists"))
                /\ UNCHANGED <<fs, pc>>
           ELSE \E outcome \in Outcomes :
                   /\ fs' = AfterConversion(fs, output_path,
                                MakePlaceholder(token_id, tokens.data[token_id]), outcome)
                   /\ log' = Append(log, Event("placeholder", token_id, output_path, outcome))
                   \* img.save is not guarded: its exception ends the script
                   /\ pc' = IF outcome = "ok" THEN "c_placeholders" ELSE "c_crashed"
    /\ i' = i + 1
    /\ UNCHANGED <<rootTokensJson, dataTokensJson, ffmpegInstalled, qrBad, tokens,
                   missing_images, ffmpeg_available, fsBefore, histVars,
                   syncVars, wrapVars>>

CPlaceholdersDone ==
    /\ pc = "c_placeholders"
    /\ i > Len(missing_images)
    /\ pc' = "c_audio_check"
    /\ i' = 1
    /\ UNCHANGED <<fs, rootTokensJson, dataTokensJson, ffmpegInstalled, qrBad, tokens,
                   missing_images, ffmpeg_available, log, fsBefore, histVars,
                   syncVars, wrapVars>>

CAudioCheck ==
    /\ pc = "c_audio_check"
    /\ ffmpeg_available' = ffmpegInstalled
    /\ pc' = IF ffmpegInstalled THEN "c_audio" ELSE "c_rewrite"
    /\ i' = 1
    /\ UNCHANGED <<fs, rootTokensJson, dataTokensJson, ffmpegInstalled, qrBad, tokens,
                   missing_images, log, fsBefore, histVars,
                   syncVars, wrapVars>>

CAudio ==
    /\ pc = "c_audio"
    /\ i <= Len(tokens.keys)
    /\ LET token_id == tokens.keys[i]
           wav_path == FindSource("audio", token_id, fs)
       IN  IF wav_path # NoPath
           THEN \E result \in Outcomes :
                   /\ fs' = AfterConversion(fs, AudioOut(token_id), ConvertedAudio, result)
                   /\ log' = Append(log, Event("audio", token_id, wav_path, result))
                   /\ pc' = PcAfterAudio(result)
           ELSE /\ log' = Append(log, Event("audio", token_id, NoPath, "missing"))
                /\ UNCHANGED <<fs, pc>>
    /\ i' = i + 1
    /\ UNCHANGED <<rootTokensJson, dataTokensJson, ffmpegInstalled, qrBad, tokens,
                   missing_images, ffmpeg_available, fsBefore, histVars,
                   syncVars, wrapVars>>

CAudioDone ==
    /\ pc = "c_audio"
    /\ i > Len(tokens.keys)
    /\ pc' = "c_rewrite"
    /\ i' = 1
    /\ UNCHANGED <<fs, rootTokensJson, dataTokensJson, ffmpegInstalled, qrBad, tokens,
                   missing_images, ffmpeg_available, log, fsBefore, histVars,
                   syncVars, wrapVars>>

CRewrite ==
    /\ pc = "c_rewrite"
    /\ tokens' = [tokens EXCEPT !.data =
                     [t \in Keys(tokens) |-> UpdatedEntry(t, tokens.data[t], fs)]]
    /\ rootTokensJson' = tokens'
    /\ log' = Append(log, Event("rewrite", <<>>, <<"tokens.json">>, "ok"))
    /\ pc' = "c_done"
    /\ UNCHANGED <<fs, dataTokensJson, ffmpegInstalled, qrBad, i, missing_images,
                   ffmpeg_available, fsBefore, histVars,
                   syncVars, wrapVars>>

----------------------------------------------------------------------------
(* The worlds the converter is run in *)

MemoryTypes == {"Personal", "Technical", "Business", "Military", "Intelligence",
                "Test", "Classified"}

Candidates(kind, token_id) ==
    UNION {SeqToSet(PathsOf(kind, name)) : name \in SeqToSet(possible_names(token_id))}

ConvStart(files, table, ffmpeg) ==
    /\ fs = files
    /\ fsBefore = files
    /\ tableBefore = table
    /\ rootTokensJson = table
    /\ dataTokensJson = NoTable
    /\ ffmpegInstalled = ffmpeg
    /\ qrBad = {}
    /\ pc = "c_start"
    /\ tokens = NoTable
    /\ i = 1
    /\ missing_images = <<>>
    /\ ffmpeg_available = FALSE
    /\ log = <<>>
    /\ lastOp = <<"none", "", "first">>
    /\ SyncIdle
    /\ WrapIdle

\* one token of one character, a few source files among its candidates
InitSearch ==
    \E token_id \in Ids, kind \in {"image", "audio"} :
      \E F \in SubsetsUpTo(Candidates(kind, token_id), MaxSrc) :
        ConvStart([p \in F |-> SourceFile],
                  Table(<<token_id>>, [t \in {token_id} |-> Entry(NoField, NoField, NoField)]),
                  TRUE)

\* the first tokens of PassKeys; each has its sources on the SD card or not, the outputs of an
\* earlier run or not, and the image/audio fields of an earlier rewrite or not
PassKeys == << <<"a">>, <<"_">>, <<"A">>, <<":">> >>

InitPass ==
    \E n \in 0..MaxTokens, ffmpeg \in BOOLEAN :
     \E keys \in {SubSeq(PassKeys, 1, n)} :
      \E hasSrc, prevOut, prevFields \in SUBSET SeqToSet(keys) :
        ConvStart(
          [p \in {bmp_paths(t)[7] : t \in hasSrc} \cup {wav_paths(t)[7] : t \in hasSrc}
                 \cup {ImageOut(t) : t \in prevOut} \cup {AudioOut(t) : t \in prevOut}
             |-> IF p \in {ImageOut(t) : t \in prevOut} THEN OldImage
                 ELSE IF p \in {AudioOut(t) : t \in prevOut} THEN OldAudio
                 ELSE SourceFile],
          Table(keys, [t \in SeqToSet(keys) |->
                  IF t \in prevFields
                  THEN Entry(<<"Personal">>, ImageOut(t), AudioOut(t))
                  ELSE Entry(<<"Personal">>, NoField, NoField)]),
          ffmpeg)

\* one token of any memory type, or none, without sources
InitColour ==
    \E token_id \in Ids, mtype \in {<<m>> : m \in MemoryTypes} \cup {<<"Hacker">>, NoField} :
        ConvStart(NoFiles,
                  Table(<<token_id>>, [t \in {token_id} |-> Entry(mtype, NoField, NoField)]),
                  FALSE)

\* no tokens.json
InitNoTable == ConvStart(NoFiles, NoTable, TRUE)

Init == InitPass \/ InitColour \/ InitNoTable

Next ==
    \/ CLoad
    \/ CImage
    \/ CImagesDone
    \/ CPlaceholder
    \/ CPlaceholdersDone
    \/ CAudioCheck
    \/ CAudio
    \/ CAudioDone
    \/ CRewrite

Spec == Init /\ [][Next]_vars

\* the converter in the candidate-search worlds
SearchSpec == InitSearch /\ [][Next]_vars

----------------------------------------------------------------------------
(* generate-qr.py and sync.py: QR codes *)

Plain == <<".png">>
Labeled == <<"_labeled", ".png">>
Coloured == <<"_color", ".png">>
Suffixes == {Plain, Labeled, Coloured}

QRPath(token_id, suffix) == <<"qr-codes/">> \o token_id \o suffix

Black == <<0, 0, 0>>

\* qrcode.QRCode(version=1, error_correction=H, box_size=10, border=4): a symbol
\* that holds no data yet
QRCode == [data_list |-> <<>>]

\* qr.add_data(data)
add_data(qr, data) == [qr EXCEPT !.data_list = Append(@, data)]

RECURSIVE Concat(_)
Concat(ss) == IF ss = <<>> THEN <<>> ELSE Head(ss) \o Concat(Tail(ss))

\* what a scanner reads from the symbol: the data added to it, in order
Payload(qr) == Concat(qr.data_list)

\* a slip that normalises the id before encoding it, as the converter's spellings do
EncodeTokenUpper(token_id) == add_data(QRCode, Upper(token_id))

\* qr = qrcode.QRCode(...); qr.add_data(token_id); qr.make(fit=True)
EncodeToken(token_id) == add_data(QRCode, token_id)

\* a version-1 symbol has 21 modules; border 4 on each side, box_size 10
QRSide == (21 + 2 * 4) * 10
LabelBand == 60

\* the colors dict of generate_color_qr
qr_colors ==
    [Personal |-> <<79, 189, 186>>,
     Technical |-> <<126, 200, 227>>,
     Business |-> <<231, 76, 60>>,
     Military |-> <<149, 165, 166>>,
     Intelligence |-> <<44, 62, 80>>,
     Test |-> <<136, 136, 136>>,
     Classified |-> <<20, 20, 40>>]

\* colors.get(memory_type, (0, 0, 0))
QRColor(token_data) ==
    IF MemoryTypeOf(token_data) \in DOMAIN qr_colors
    THEN qr_colors[MemoryTypeOf(token_data)]
    ELSE Black

\* the image each mode saves for a token
QRImage(mode, token_id, token_data) ==
    CASE mode = "plain" ->
           File("PNG", "qr", QRSide, QRSide, Black, Payload(EncodeToken(token_id)))
      [] mode = "labeled" ->
           File("PNG", "qr-labeled", QRSide, QRSide + LabelBand, Black,
                Payload(EncodeToken(token_id)))
      [] mode = "color" ->
           File("PNG", "qr-color", QRSide, QRSide, QRColor(token_data),
                Payload(EncodeToken(token_id)))

QRSuffix(mode) ==
    CASE mode = "plain" -> Plain
      [] mode = "labeled" -> Labeled
      [] mode = "color" -> Coloured

\* load_tokens, and the nested try/except of generate-qr.py: data/tokens.json
\* first, tokens.json second
LoadTokens(data, root) == IF data.exists THEN data ELSE root

\* for token_id in tokens: try: ... img.save(...); generated += 1
\*                         except Exception: print(...)
RECURSIVE GenerateLoop(_, _, _, _, _, _)
GenerateLoop(mode, files, table, k, bad, generated) ==
    IF k > Len(table.keys) THEN [files |-> files, count |-> generated]
    ELSE LET token_id == table.keys[k]
         IN  IF token_id \in bad
             THEN GenerateLoop(mode, files, table, k + 1, bad, generated)
             ELSE GenerateLoop(mode,
                     WriteFile(files, QRPath(token_id, QRSuffix(mode)),
                               QRImage(mode, token_id, table.data[token_id])),
                     table, k + 1, bad, generated + 1)

generate_simple_qr(files, table, bad) == GenerateLoop("plain", files, table, 1, bad, 0)
generate_labeled_qr(files, table, bad) == GenerateLoop("labeled", files, table, 1, bad, 0)
generate_color_qr(files, table, bad) == GenerateLoop("color", files, table, 1, bad, 0)

\* whether a run of `op` with argument `arg` repeats the run just before it
Nth(op, arg) == IF lastOp[1] = op /\ lastOp[2] = arg THEN "again" ELSE "first"

Choices == {"1", "2", "3", "4"}

\* main of generate-qr.py, the answer to its prompt being `choice`
QRMainFiles(files, data, root, bad, choice) ==
    IF ~data.exists /\ ~root.exists THEN files
    ELSE LET table == LoadTokens(data, root)
             simple == generate_simple_qr(files, table, bad)
             labeled == IF simple.count > 0 /\ choice \in {"1", "3"}
                        THEN generate_labeled_qr(simple.files, table, bad).files
                        ELSE simple.files
         IN  IF simple.count > 0 /\ choice \in {"2", "3"}
             THEN generate_color_qr(labeled, table, bad).files
             ELSE labeled

QRMain ==
    /\ pc = "idle"
    /\ \E choice \in Choices :
        /\ fs' = QRMainFiles(fs, dataTokensJson, rootTokensJson, qrBad, choice)
        /\ lastOp' = <<"generate-qr", choice, Nth("generate-qr", choice)>>
        /\ log' = <<Event("generate-qr", <<>>, <<>>,
                         IF ~dataTokensJson.exists /\ ~rootTokensJson.exists
                         THEN "no tokens" ELSE "done")>>
    /\ UNCHANGED <<rootTokensJson, dataTokensJson, ffmpegInstalled, qrBad, pc,
                   convVars, syncVars, wrapVars, fsBefore, tableBefore>>

\* f.stem for f in qr_dir.glob('*.png')
PngStems(files) ==
    {SubSeq(p, 2, Len(p) - 1) :
        p \in {q \in DOMAIN files : q[1] = "qr-codes/" /\ q[Len(q)] = ".png"}}

\* for token_id in tokens.keys(): ... img.save(qr_file)   (nothing is caught)
RECURSIVE SyncSaveLoop(_, _, _, _)
SyncSaveLoop(files, table, k, bad) ==
    IF k > Len(table.keys) THEN [files |-> files, crashed |-> FALSE]
    ELSE LET token_id == table.keys[k]
         IN  IF token_id \in bad THEN [files |-> files, crashed |-> TRUE]
             ELSE SyncSaveLoop(
                     WriteFile(files, QRPath(token_id, Plain),
                               QRImage("plain", token_id, table.data[token_id])),
                     table, k + 1, bad)

\* a slip that cleans up only in a run that has no new token to generate
RemovedTokensWhenNothingNew(existing, needed) ==
    IF needed \subseteq existing THEN existing \ needed ELSE {}

\* removed_tokens = existing - needed
RemovedTokens(existing, needed) == existing \ needed

\* generate_qr_codes(tokens) of sync.py
generate_qr_codes(files, table, bad) ==
    LET existing == PngStems(files)
        needed == Keys(table)
        removed_tokens == RemovedTokens(existing, needed)
        cleaned == [p \in (DOMAIN files) \ {QRPath(t, Plain) : t \in removed_tokens}
                      |-> files[p]]
    IN  SyncSaveLoop(cleaned, table, 1, bad)

\* a slip that goes on without tokens
NotTokensNever(table) == FALSE

\* if not tokens: None when no file was found, and also an empty table
NotTokens(table) == ~table.exists \/ table.keys = <<>>

\* main of sync.py from load_tokens on
SyncMain ==
    /\ pc = "idle"
    /\ LET table == LoadTokens(dataTokensJson, rootTokensJson)
       IN  IF NotTokens(table)
           THEN /\ fs' = fs
                /\ log' = <<Event("sync", <<>>, <<>>, "return 1")>>
           ELSE LET r == generate_qr_codes(fs, table, qrBad)
                IN  /\ fs' = r.files
                    /\ log' = <<Event("sync", <<>>, <<>>,
                                     IF r.crashed THEN "crashed" ELSE "return 0")>>
    /\ lastOp' = <<"sync", "", Nth("sync", "")>>
    /\ UNCHANGED <<rootTokensJson, dataTokensJson, ffmpegInstalled, qrBad, pc,
                   convVars, syncVars, wrapVars, fsBefore, tableBefore>>

----------------------------------------------------------------------------
(* The worlds the QR scripts are run in, and the edits of the token table *)

QRKeys == << <<"a">>, <<"A">>, <<"a", "_labeled">> >>
QRIds == SeqToSet(QRKeys)

QREntry(token_id) ==
    Entry(IF token_id = <<"a">> THEN <<"Military">>
          ELSE IF token_id = <<"A">> THEN NoField ELSE <<"Hacker">>,
          NoField, NoField)

QRTable(keys) == Table(keys, [t \in SeqToSet(keys) |-> QREntry(t)])

InSet(S) == [t \in QRIds |-> t \in S]
SelectKeys(S) == SelectSeq(QRKeys, LAMBDA t : InSet(S)[t])

OldPng == File("PNG", "earlier", 100, 100, Black, <<"old">>)

\* what qr-codes/ may hold before the first run: the files of one token in each
\* layout, an image that is no token's, a file that is no image
QRNamePool ==
    {QRPath(<<"a">>, sfx) : sfx \in Suffixes}
        \cup {<<"qr-codes/", "logo", ".png">>, <<"qr-codes/", "notes", ".txt">>}

\* the file load_tokens reads is the one that is edited
WriteTable(table) ==
    IF dataTokensJson.exists
    THEN dataTokensJson' = table /\ rootTokensJson' = rootTokensJson
    ELSE rootTokensJson' = table /\ dataTokensJson' = dataTokensJson

EditRemove ==
    /\ pc = "idle"
    /\ LET table == LoadTokens(dataTokensJson, rootTokensJson)
       IN  /\ table.exists
           /\ \E t \in Keys(table) :
                /\ WriteTable(QRTable(SelectSeq(table.keys, LAMBDA u : u # t)))
                /\ lastOp' = <<"remove", t, "first">>
    /\ UNCHANGED <<fs, ffmpegInstalled, qrBad, pc, convVars, syncVars, wrapVars, log, fsBefore, tableBefore>>

EditAdd ==
    /\ pc = "idle"
    /\ LET table == LoadTokens(dataTokensJson, rootTokensJson)
       IN  /\ table.exists
           /\ Len(table.keys) < MaxTokens
           /\ \E t \in QRIds \ Keys(table) :
                /\ WriteTable(QRTable(Append(table.keys, t)))
                /\ lastOp' = <<"add", t, "first">>
    /\ UNCHANGED <<fs, ffmpegInstalled, qrBad, pc, convVars, syncVars, wrapVars, log, fsBefore, tableBefore>>

QRInit ==
    \E where \in {"data", "root", "none"}, S \in SubsetsUpTo(QRIds, MaxTokens) :
      \E F \in SubsetsUpTo(QRNamePool, MaxInitQR), bad \in {{}, {<<"A">>}} :
        /\ fs = [p \in F |-> OldPng]
        /\ dataTokensJson = IF where = "data" THEN QRTable(SelectKeys(S)) ELSE NoTable
        /\ rootTokensJson = IF where = "root" THEN QRTable(SelectKeys(S)) ELSE NoTable
        /\ qrBad = bad
        /\ ffmpegInstalled = FALSE
        /\ pc = "idle"
        /\ tokens = NoTable
        /\ i = 1
        /\ missing_images = <<>>
        /\ ffmpeg_available = FALSE
        /\ log = <<>>
        /\ fsBefore = NoFiles
        /\ tableBefore = NoTable
        /\ lastOp = <<"none", "", "first">>
        /\ SyncIdle
        /\ WrapIdle

QRNext ==
    \/ QRMain
    \/ SyncMain
    \/ EditRemove
    \/ EditAdd

\* the QR generator and the sync helper, run again and again between edits
QRSpec == QRInit /\ [][QRNext]_vars

----------------------------------------------------------------------------
(* sync.py: main, command by command *)

MaxFail == 1       \* most git commands that fail in one run

Data == <<"data">>       \* os.chdir('data')
Parent == <<".">>        \* original_dir

SubmoduleInit == <<"git submodule init">>
SubmoduleUpdate == <<"git submodule update">>
Status == <<"git status --porcelain">>
AddTokens == <<"git add tokens.json">>
CommitTokens == <<"git commit -m", "Update tokens">>
PushShared == <<"git push origin HEAD:main">>
PullRebase == <<"git pull origin main --rebase">>
AddData == <<"git add data">>
CommitReference == <<"git commit -m", "Update submodule reference">>
AddAll == <<"git add -A">>
CommitSync == <<"git commit -m", "Sync tokens and QR codes">>
PushPages == <<"git push origin main">>
RemoteUrl == <<"git remote get-url origin">>

\* the commands of a run, each with the directory it is issued in
Commands ==
    {<<Parent, SubmoduleInit>>, <<Parent, SubmoduleUpdate>>, <<Data, Status>>,
     <<Data, AddTokens>>, <<Data, CommitTokens>>, <<Data, PushShared>>,
     <<Data, PullRebase>>, <<Parent, AddData>>, <<Parent, CommitReference>>,
     <<Parent, Status>>, <<Parent, AddAll>>, <<Parent, CommitSync>>,
     <<Parent, PushPages>>, <<Parent, RemoteUrl>>}

IsCommit(cmd) == cmd[1] = "git commit -m"

NothingToCommit == <<"nothing to commit, working tree clean">>
Changes == <<" M tokens.json">>

\* subprocess.run(cmd, shell=True, capture_output=True, text=True) in directory dir
Process(env, dir, cmd) ==
    IF <<dir, cmd>> \in env.failing THEN [returncode |-> 1, stdout |-> <<>>]
    ELSE IF cmd = Status
         THEN [returncode |-> 0,
               stdout |-> IF dir[1] \in env.dirty THEN Changes ELSE <<>>]
    ELSE IF IsCommit(cmd) /\ dir[1] \notin env.dirty
         THEN [returncode |-> 1, stdout |-> NothingToCommit]
    ELSE [returncode |-> 0, stdout |-> <<>>]

\* run_command(cmd, description, capture)
run_command(result, capture) ==
    IF result.returncode # 0 /\ result.stdout # NothingToCommit
    THEN (IF capture THEN result.stdout ELSE FALSE)
    ELSE (IF capture THEN result.stdout ELSE TRUE)

\* what the run did: the command, where, and how it ended
Issue(dir, cmd) ==
    log' = Append(log, Event("cmd", dir, cmd,
                IF Process(git, dir, cmd).returncode = 0 THEN "exit 0" ELSE "exit 1"))

\* what no step of sync.py touches
SyncFrame ==
    UNCHANGED <<rootTokensJson, ffmpegInstalled, qrBad, i, missing_images,
                ffmpeg_available, fsBefore, histVars, wrapVars, argv, git>>

\* sync_submodule: if not os.path.exists('data/.git')
SSubmodule ==
    /\ pc = "s_start"
    /\ pc' = IF git.submodule THEN "s_status" ELSE "s_init"
    /\ SyncFrame
    /\ UNCHANGED <<fs, dataTokensJson, tokens, has_local_changes, log>>

SInit ==
    /\ pc = "s_init"
    /\ Issue(Parent, SubmoduleInit)
    /\ pc' = "s_update"
    /\ SyncFrame
    /\ UNCHANGED <<fs, dataTokensJson, tokens, has_local_changes>>

\* git submodule update checks out data/ as the shared repository has it
SUpdate ==
    /\ pc = "s_update"
    /\ Issue(Parent, SubmoduleUpdate)
    /\ dataTokensJson' = IF Process(git, Parent, SubmoduleUpdate).returncode = 0
                            /\ git.remote.exists
                         THEN git.remote ELSE dataTokensJson
    /\ pc' = "s_load"
    /\ SyncFrame
    /\ UNCHANGED <<fs, tokens, has_local_changes>>

\* a slip that puts the pull inside `if has_local_changes`
AfterStatusPullInsideIf(changes) == IF changes THEN "s_add" ELSE "s_parent_add"

\* if has_local_changes: add, commit, push;  then the pull in either case
AfterStatus(changes) == IF changes THEN "s_add" ELSE "s_pull"

\* status = run_command(..., capture=True); has_local_changes = bool(status.strip())
SStatus ==
    /\ pc = "s_status"
    /\ Issue(Data, Status)
    /\ LET status == run_command(Process(git, Data, Status), TRUE)
       IN  /\ has_local_changes' = (status # <<>>)
           /\ pc' = AfterStatus(status # <<>>)
    /\ SyncFrame
    /\ UNCHANGED <<fs, dataTokensJson, tokens>>

SAdd ==
    /\ pc = "s_add"
    /\ Issue(Data, AddTokens)
    /\ pc' = "s_commit"
    /\ SyncFrame
    /\ UNCHANGED <<fs, dataTokensJson, tokens, has_local_changes>>

SCommit ==
    /\ pc = "s_commit"
    /\ Issue(Data, CommitTokens)
    /\ pc' = "s_push"
    /\ SyncFrame
    /\ UNCHANGED <<fs, dataTokensJson, tokens, has_local_changes>>

\* a slip that leaves sync_submodule when the push failed
AfterPushReturns(push_result) == IF push_result THEN "s_pull" ELSE "s_load"

\* if push_result: print(...) else: print(...): only the message differs
AfterPush(push_result) == "s_pull"

SPush ==
    /\ pc = "s_push"
    /\ Issue(Data, PushShared)
    /\ pc' = AfterPush(run_command(Process(git, Data, PushShared), FALSE))
    /\ SyncFrame
    /\ UNCHANGED <<fs, dataTokensJson, tokens, has_local_changes>>

\* git pull --rebase brings data/tokens.json to what the shared repository has
SPull ==
    /\ pc = "s_pull"
    /\ Issue(Data, PullRebase)
    /\ dataTokensJson' = IF Process(git, Data, PullRebase).returncode = 0
                            /\ git.remote.exists
                         THEN git.remote ELSE dataTokensJson
    /\ pc' = "s_parent_add"
    /\ SyncFrame
    /\ UNCHANGED <<fs, tokens, has_local_changes>>

SParentAdd ==
    /\ pc = "s_parent_add"
    /\ Issue(Parent, AddData)
    /\ pc' = "s_parent_commit"
    /\ SyncFrame
    /\ UNCHANGED <<fs, dataTokensJson, tokens, has_local_changes>>

SParentCommit ==
    /\ pc = "s_parent_commit"
    /\ Issue(Parent, CommitReference)
    /\ pc' = "s_load"
    /\ SyncFrame
    /\ UNCHANGED <<fs, dataTokensJson, tokens, has_local_changes>>

\* tokens, source = load_tokens(); if not tokens: return 1
SLoad ==
    /\ pc = "s_load"
    /\ tokens' = LoadTokens(dataTokensJson, rootTokensJson)
    /\ log' = Append(log, Event("load", <<>>, <<>>,
                        IF LoadTokens(dataTokensJson, rootTokensJson).exists
                        THEN "loaded" ELSE "none"))
    /\ pc' = IF NotTokens(tokens') THEN "s_return1" ELSE "s_qr"
    /\ SyncFrame
    /\ UNCHANGED <<fs, dataTokensJson, has_local_changes>>

\* generate_qr_codes(tokens); if deploy and not local_only: deploy_to_github_pages()
SQR ==
    /\ pc = "s_qr"
    /\ LET r == generate_qr_codes(fs, tokens, qrBad)
       IN  /\ fs' = r.files
           /\ log' = Append(log, Event("qr", <<>>, <<>>,
                               IF r.crashed THEN "crashed" ELSE "done"))
           /\ pc' = IF r.crashed THEN "s_crashed"
                    ELSE IF "--deploy" \in argv /\ "--local" \notin argv THEN "d_status"
                    ELSE "s_return0"
    /\ SyncFrame
    /\ UNCHANGED <<dataTokensJson, tokens, has_local_changes>>

\* deploy_to_github_pages: if not status.strip(): return True
DStatus ==
    /\ pc = "d_status"
    /\ LET status == run_command(Process(git, Parent, Status), TRUE)
       IN  IF status = <<>>
           THEN /\ log' = log \o <<Event("cmd", Parent, Status,
                                     IF Process(git, Parent, Status).returncode = 0
                                     THEN "exit 0" ELSE "exit 1"),
                                   Event("deploy", <<>>, <<>>, "True")>>
                /\ pc' = "s_return0"
           ELSE /\ Issue(Parent, Status)
                /\ pc' = "d_add"
    /\ SyncFrame
    /\ UNCHANGED <<fs, dataTokensJson, tokens, has_local_changes>>

DAdd ==
    /\ pc = "d_add"
    /\ Issue(Parent, AddAll)
    /\ pc' = "d_commit"
    /\ SyncFrame
    /\ UNCHANGED <<fs, dataTokensJson, tokens, has_local_changes>>

DCommit ==
    /\ pc = "d_commit"
    /\ Issue(Parent, CommitSync)
    /\ pc' = "d_push"
    /\ SyncFrame
    /\ UNCHANGED <<fs, dataTokensJson, tokens, has_local_changes>>

\* a slip that reports success whatever the push did
DeployResultAlwaysTrue(pushed) == "True"

\* if run_command("git push origin main", ...): ... return True  else: return False
DeployResult(pushed) == IF pushed THEN "True" ELSE "False"

DPush ==
    /\ pc = "d_push"
    /\ IF run_command(Process(git, Parent, PushPages), FALSE)
       THEN /\ Issue(Parent, PushPages)
            /\ pc' = "d_remote"
       ELSE /\ log' = log \o <<Event("cmd", Parent, PushPages, "exit 1"),
                               Event("deploy", <<>>, <<>>, DeployResult(FALSE))>>
            /\ pc' = "s_return0"
    /\ SyncFrame
    /\ UNCHANGED <<fs, dataTokensJson, tokens, has_local_changes>>

DRemote ==
    /\ pc = "d_remote"
    /\ log' = log \o <<Event("cmd", Parent, RemoteUrl,
                             IF Process(git, Parent, RemoteUrl).returncode = 0
                             THEN "exit 0" ELSE "exit 1"),
                       Event("deploy", <<>>, <<>>, DeployResult(TRUE))>>
    /\ pc' = "s_return0"
    /\ SyncFrame
    /\ UNCHANGED <<fs, dataTokensJson, tokens, has_local_changes>>

SyncNext ==
    \/ SSubmodule
    \/ SInit
    \/ SUpdate
    \/ SStatus
    \/ SAdd
    \/ SCommit
    \/ SPush
    \/ SPull
    \/ SParentAdd
    \/ SParentCommit
    \/ SLoad
    \/ SQR
    \/ DStatus
    \/ DAdd
    \/ DCommit
    \/ DPush
    \/ DRemote

\* a run of sync.py: the flags, the submodule, what git status reports where, the
\* commands that fail, what the shared repository holds, the local token file
SyncStart(flags, env, data, root, bad, files) ==
    /\ argv = flags
    /\ git = env
    /\ has_local_changes = FALSE
    /\ pc = "s_start"
    /\ dataTokensJson = data
    /\ rootTokensJson = root
    /\ tableBefore = LoadTokens(data, root)
    /\ qrBad = bad
    /\ fs = files
    /\ fsBefore = files
    /\ ffmpegInstalled = FALSE
    /\ tokens = NoTable
    /\ i = 1
    /\ missing_images = <<>>
    /\ ffmpeg_available = FALSE
    /\ log = <<>>
    /\ lastOp = <<"none", "", "first">>
    /\ WrapIdle

SyncInit ==
    \E flags \in SUBSET {"--deploy", "--local"}, sub \in BOOLEAN,
       dirty \in SUBSET {"data", "."}, failing \in SubsetsUpTo(Commands, MaxFail) :
      \E remote \in {NoTable, QRTable(<< <<"A">> >>)},
         data \in {NoTable, QRTable(<<>>), QRTable(<< <<"a">> >>)},
         bad \in {{}, {<<"a">>}} :
        SyncStart(flags,
                  [submodule |-> sub, dirty |-> dirty, failing |-> failing,
                   remote |-> remote],
                  data, NoTable, bad, NoFiles)

\* sync.py, run once in each world
SyncSpec == SyncInit /\ [][SyncNext]_vars

----------------------------------------------------------------------------
(* The colour scheme by SF_MemoryType of create_placeholders.py, which         *)
(* generate-qr.py repeats                                                      *)

scheme_colors ==
    [Personal |-> <<79, 189, 186>>,
     Technical |-> <<126, 200, 227>>,
     Business |-> <<231, 76, 60>>,
     Military |-> <<149, 165, 166>>,
     Intelligence |-> <<44, 62, 80>>,
     Test |-> <<136, 136, 136>>,
     Classified |-> <<20, 20, 40>>]

\* colors.get(memory_type, (136, 136, 136)) of create_placeholders.py
SchemeColor(token_data) ==
    IF MemoryTypeOf(token_data) \in DOMAIN scheme_colors
    THEN scheme_colors[MemoryTypeOf(token_data)]
    ELSE <<136, 136, 136>>

----------------------------------------------------------------------------
(* create_placeholders.py: the word wrap of the title *)

MaxWords == 3      \* most words of a wrapped title

WrapLimit == 20

Space == " "

\* a word of n characters c
Word(c, n) == [k \in 1..n |-> c]

\* title.split(): the maximal runs of characters that are not whitespace
RECURSIVE SplitFrom(_, _, _)
SplitFrom(s, k, cur) ==
    IF k > Len(s) THEN (IF cur = <<>> THEN <<>> ELSE <<cur>>)
    ELSE IF s[k] = Space
         THEN (IF cur = <<>> THEN <<>> ELSE <<cur>>) \o SplitFrom(s, k + 1, <<>>)
         ELSE SplitFrom(s, k + 1, Append(cur, s[k]))

Split(s) == SplitFrom(s, 1, <<>>)

\* ' '.join(ws)
RECURSIVE Join(_)
Join(ws) ==
    IF ws = <<>> THEN <<>>
    ELSE IF Len(ws) = 1 THEN ws[1]
    ELSE ws[1] \o <<Space>> \o Join(Tail(ws))

\* a slip that forgets to start the next line with the word that did not fit
WrapWordDropsWord(ls, cur, word) ==
    LET appended == Append(cur, word)
        test_line == Join(appended)
    IN  IF Len(test_line) > WrapLimit
        THEN IF Len(appended) > 1
             THEN [lines |-> Append(ls, Join(cur)), current_line |-> <<>>]
             ELSE [lines |-> Append(ls, test_line), current_line |-> <<>>]
        ELSE [lines |-> ls, current_line |-> appended]

\* the body of `for word in words`
WrapWord(ls, cur, word) ==
    LET appended == Append(cur, word)
        test_line == Join(appended)
    IN  IF Len(test_line) > WrapLimit
        THEN IF Len(appended) > 1
             THEN [lines |-> Append(ls, Join(cur)), current_line |-> <<word>>]
             ELSE [lines |-> Append(ls, test_line), current_line |-> <<>>]
        ELSE [lines |-> ls, current_line |-> appended]

\* if current_line: lines.append(' '.join(current_line))
WrapRest(ls, cur) == IF cur # <<>> THEN Append(ls, Join(cur)) ELSE ls

WSplit ==
    /\ pc = "w_split"
    /\ words' = Split(title)
    /\ lines' = <<>>
    /\ current_line' = <<>>
    /\ i' = 1
    /\ pc' = "w_words"
    /\ UNCHANGED <<fs, rootTokensJson, dataTokensJson, ffmpegInstalled, qrBad, tokens,
                   missing_images, ffmpeg_available, log, fsBefore, histVars, syncVars,
                   title>>

WWord ==
    /\ pc = "w_words"
    /\ i <= Len(words)
    /\ LET r == WrapWord(lines, current_line, words[i])
       IN  lines' = r.lines /\ current_line' = r.current_line
    /\ i' = i + 1
    /\ UNCHANGED <<fs, rootTokensJson, dataTokensJson, ffmpegInstalled, qrBad, pc, tokens,
                   missing_images, ffmpeg_available, log, fsBefore, histVars, syncVars,
                   title, words>>

WRest ==
    /\ pc = "w_words"
    /\ i > Len(words)
    /\ lines' = WrapRest(lines, current_line)
    /\ pc' = "w_done"
    /\ UNCHANGED <<fs, rootTokensJson, dataTokensJson, ffmpegInstalled, qrBad, tokens, i,
                   missing_images, ffmpeg_available, log, fsBefore, histVars, syncVars,
                   title, words, current_line>>

\* the words titles are made of: short ones, and one longer than a line
WordPool == {Word("a", 3), Word("b", 8), Word("c", 12), Word("d", 21)}

RECURSIVE SeqsUpTo(_, _)
SeqsUpTo(S, n) ==
    IF n = 0 THEN {<<>>}
    ELSE LET shorter == SeqsUpTo(S, n - 1)
         IN  shorter \cup {Append(q, x) : q \in shorter, x \in S}

\* the words with `gap` spaces between them and gap - 1 spaces around them
RECURSIVE Spaced(_, _)
Spaced(ws, gap) ==
    IF ws = <<>> THEN Word(Space, gap - 1)
    ELSE Word(Space, gap - 1) \o ws[1]
           \o (IF Len(ws) = 1 THEN <<>> ELSE <<Space>>) \o Spaced(Tail(ws), gap)

WrapInit ==
    \E ws \in SeqsUpTo(WordPool, MaxWords), gap \in {1, 2} :
        /\ title = Spaced(ws, gap)
        /\ words = <<>>
        /\ lines = <<>>
        /\ current_line = <<>>
        /\ pc = "w_split"
        /\ i = 1
        /\ fs = NoFiles
        /\ fsBefore = NoFiles
        /\ tableBefore = NoTable
        /\ rootTokensJson = NoTable
        /\ dataTokensJson = NoTable
        /\ ffmpegInstalled = FALSE
        /\ qrBad = {}
        /\ tokens = NoTable
        /\ missing_images = <<>>
        /\ ffmpeg_available = FALSE
        /\ log = <<>>
        /\ lastOp = <<"none", "", "first">>
        /\ SyncIdle

WrapNext ==
    \/ WSplit
    \/ WWord
    \/ WRest

\* the word wrap on titles of up to MaxWords words
WrapSpec == WrapInit /\ [][WrapNext]_vars

----------------------------------------------------------------------------
(* create_placeholders.py: the run *)

\* lines of the wrapped title, the loop run to its end
RECURSIVE WrapFrom(_, _, _, _)
WrapFrom(ws, k, ls, cur) ==
    IF k > Len(ws) THEN WrapRest(ls, cur)
    ELSE WrapFrom(ws, k + 1, WrapWord(ls, cur, ws[k]).lines,
                  WrapWord(ls, cur, ws[k]).current_line)

WrapLines(text) == WrapFrom(Split(text), 1, <<>>, <<>>)

\* the picture of a token: its colour, the wrapped title (the token id), the id
TokenPlaceholder(token_id, token_data) ==
    File("JPEG", "create_placeholders", PlaceholderSize, PlaceholderSize,
         SchemeColor(token_data), WrapLines(token_id))

GenericPath == <<"assets/images/", "placeholder", ".jpg">>

\* the picture of placeholder.jpg
GenericPlaceholder ==
    File("JPEG", "create_placeholders", PlaceholderSize, PlaceholderSize,
         <<100, 100, 100>>, <<"?", "Image Not Found">>)

\* a slip that draws every picture anew
SkipExistingNever(files, out) == FALSE

\* if os.path.exists(output_path): ... continue
SkipExisting(files, out) == Exists(files, out)

\* for token_id, token_data in tokens.items(): skip or try: ... img.save(...)
\*                                             except Exception: print(...)
RECURSIVE PlaceholderLoop(_, _, _, _)
PlaceholderLoop(files, table, k, bad) ==
    IF k > Len(table.keys) THEN files
    ELSE LET token_id == table.keys[k]
         IN  IF SkipExisting(files, ImageOut(token_id)) \/ token_id \in bad
             THEN PlaceholderLoop(files, table, k + 1, bad)
             ELSE PlaceholderLoop(
                     WriteFile(files, ImageOut(token_id),
                               TokenPlaceholder(token_id, table.data[token_id])),
                     table, k + 1, bad)

\* if not os.path.exists(placeholder_path): ... img.save(placeholder_path, ...)
WithGeneric(files) ==
    IF SkipExisting(files, GenericPath) THEN files
    ELSE WriteFile(files, GenericPath, GenericPlaceholder)

\* the whole script
PlaceholdersMain ==
    /\ pc = "idle"
    /\ LET table == LoadTokens(dataTokensJson, rootTokensJson)
       IN  IF ~table.exists
           THEN /\ fs' = fs
                /\ log' = <<Event("placeholders", <<>>, <<>>, "exit 1")>>
           ELSE /\ fs' = WithGeneric(PlaceholderLoop(fs, table, 1, qrBad))
                /\ log' = <<Event("placeholders", <<>>, <<>>, "done")>>
    /\ lastOp' = <<"placeholders", "", Nth("placeholders", "")>>
    /\ UNCHANGED <<rootTokensJson, dataTokensJson, ffmpegInstalled, qrBad, pc,
                   convVars, syncVars, wrapVars, fsBefore, tableBefore>>

----------------------------------------------------------------------------
(* The four scripts side by side *)

\* pictures an earlier run, or somebody, left in assets/images
ToolsFilePool == {ImageOut(<<"a">>), GenericPath}

ToolsTables == {NoTable} \cup {QRTable(SelectKeys(S)) : S \in SubsetsUpTo(QRIds, MaxTokens)}

\* the asset converter about to run
ToolsConverter ==
    \E data \in {NoTable, QRTable(<< <<"a">> >>)}, root \in ToolsTables,
       F \in SUBSET ToolsFilePool, ffmpeg \in BOOLEAN :
        /\ fs = [p \in F |-> OldImage]
        /\ fsBefore = fs
        /\ tableBefore = root
        /\ rootTokensJson = root
        /\ dataTokensJson = data
        /\ ffmpegInstalled = ffmpeg
        /\ qrBad = {}
        /\ pc = "c_start"
        /\ tokens = NoTable
        /\ i = 1
        /\ missing_images = <<>>
        /\ ffmpeg_available = FALSE
        /\ log = <<>>
        /\ lastOp = <<"none", "", "first">>
        /\ SyncIdle
        /\ WrapIdle

\* the sync helper about to run
ToolsSync ==
    \E flags \in SUBSET {"--deploy", "--local"}, sub \in BOOLEAN,
       dirty \in {{}, {"data", "."}}, remote \in {NoTable, QRTable(<< <<"A">> >>)} :
      \E data \in {NoTable, QRTable(<< <<"a">> >>)}, root \in ToolsTables :
        SyncStart(flags,
                  [submodule |-> sub, dirty |-> dirty, failing |-> {}, remote |-> remote],
                  data, root, {}, NoFiles)

\* the placeholder generator and the QR generator, run in any order
ToolsIdle ==
    \E data \in {NoTable, QRTable(<< <<"a">> >>)}, root \in ToolsTables,
       F \in SUBSET ToolsFilePool, bad \in {{}, {<<"a">>}} :
        /\ fs = [p \in F |-> OldImage]
        /\ fsBefore = fs
        /\ tableBefore = LoadTokens(data, root)
        /\ rootTokensJson = root
        /\ dataTokensJson = data
        /\ ffmpegInstalled = FALSE
        /\ qrBad = bad
        /\ pc = "idle"
        /\ tokens = NoTable
        /\ i = 1
        /\ missing_images = <<>>
        /\ ffmpeg_available = FALSE
        /\ log = <<>>
        /\ lastOp = <<"none", "", "first">>
        /\ SyncIdle
        /\ WrapIdle

ToolsInit == ToolsConverter \/ ToolsSync \/ ToolsIdle

ToolsNext ==
    \/ CLoad
    \/ CImage
    \/ CImagesDone
    \/ CPlaceholder
    \/ CPlaceholdersDone
    \/ CAudioCheck
    \/ CAudio
    \/ CAudioDone
    \/ CRewrite
    \/ SSubmodule
    \/ SInit
    \/ SUpdate
    \/ SStatus
    \/ SAdd
    \/ SCommit
    \/ SPush
    \/ SPull
    \/ SParentAdd
    \/ SParentCommit
    \/ SLoad
    \/ SQR
    \/ DStatus
    \/ DAdd
    \/ DCommit
    \/ DPush
    \/ DRemote
    \/ QRMain
    \/ PlaceholdersMain

\* each script in the worlds where the token file is in data/, in the current
\* directory, in both or in neither
ToolsSpec == ToolsInit /\ [][ToolsNext]_vars

----------------------------------------------------------------------------
(* Claims about the asset converter *)

Running == pc \notin {"c_done", "c_exit1", "c_crashed"}

Events(ev) == {k \in 1..Len(log) : log[k].ev = ev}

\* no candidate source bitmap of the token is on disk
NoSourceImage(token_id) ==
    \A p \in Candidates("image", token_id) : ~Exists(fs, p)

Is800Placeholder(f) ==
    f.kind = "JPEG" /\ f.made = "placeholder" /\ f.w = 800 /\ f.h = 800

\* C1 as stated: after a run that reaches its end, every token without a source
\* bitmap has assets/images/<id>.jpg, and that file is an 800x800 JPEG placeholder,
\* whatever assets/images held before.
C1_AsStated ==
    pc = "c_done" =>
        \A t \in Keys(tokens) :
            \/ Exists(fs, ImageOut(t)) /\ Is800Placeholder(fs[ImageOut(t)])
            \/ ~NoSourceImage(t)

\* C1 amended: after a run that reaches its end, every token without a source
\* bitmap has assets/images/<id>.jpg; the file is an 800x800 JPEG placeholder when
\* there was no such file before the run, and is the earlier file, untouched,
\* when there was.
C1_PlaceholderUnlessPresent ==
    pc = "c_done" =>
        \A t \in Keys(tokens) :
            \/ /\ Exists(fs, ImageOut(t))
               /\ IF Exists(fsBefore, ImageOut(t))
                  THEN fs[ImageOut(t)] = fsBefore[ImageOut(t)]
                  ELSE Is800Placeholder(fs[ImageOut(t)])
            \/ ~NoSourceImage(t)

C1_Witness ==
    /\ pc = "c_done"
    /\ \E t, u \in Keys(tokens) :
        /\ NoSourceImage(t) /\ ~Exists(fsBefore, ImageOut(t))
        /\ Is800Placeholder(fs[ImageOut(t)])
        /\ NoSourceImage(u) /\ Exists(fsBefore, ImageOut(u))

\* the spellings in the order the claim gives them
ClaimedSpelling(token_id, s) ==
    CASE s = 1 -> token_id
      [] s = 2 -> Upper(token_id)
      [] s = 3 -> Lower(token_id)
      [] s = 4 -> Replace(token_id, "_", <<>>)
      [] s = 5 -> Replace(token_id, ":", <<>>)
      [] s = 6 -> Replace(token_id, ":", <<"_">>)

ClaimedCandidate(kind, token_id, c) ==
    PathsOf(kind, ClaimedSpelling(token_id, c[1]))[c[2]]

\* the (spelling, directory) pairs whose file was on disk when the run started
\* (the run writes no .BMP and no .WAV file)
OnDisk(kind, token_id) ==
    {c \in (1..6) \X (1..8) : Exists(fsBefore, ClaimedCandidate(kind, token_id, c))}

Kind(ev) == IF ev = "image" THEN "image" ELSE "audio"

\* C2: the source converted for a token is the first candidate on disk, spelling
\* by spelling and, within a spelling, directory by directory; nothing is opened
\* when there is none; and no token has a second source opened, even when the
\* conversion of the first failed.
C2_FirstCandidateWins ==
    ~Running =>
    \A k \in Events("image") \cup Events("audio") :
        LET e == log[k]
            found == OnDisk(Kind(e.ev), e.tok)
        IN  /\ (e.res = "missing") = (found = {})
            /\ e.res = "missing" => e.path = NoPath
            /\ e.res # "missing" =>
                 \E c \in found :
                    /\ e.path = ClaimedCandidate(Kind(e.ev), e.tok, c)
                    /\ \A c2 \in found :
                          c[1] < c2[1] \/ (c[1] = c2[1] /\ c[2] <= c2[2])
            /\ \A k2 \in Events(e.ev) : log[k2].tok = e.tok => k2 = k

\* a failed conversion of a token with two sources on disk, the later spelling in
\* the earlier directory
C2_Witness ==
    \E k \in Events("image") :
        /\ log[k].res = "error"
        /\ \E c, c2 \in OnDisk("image", log[k].tok) :
              /\ c[1] < c2[1] /\ c[2] > c2[2]
              /\ ClaimedCandidate("image", log[k].tok, c)
                   # ClaimedCandidate("image", log[k].tok, c2)
              /\ log[k].path = ClaimedCandidate("image", log[k].tok, c)
        /\ pc = "c_done"

\* C5 as stated: in the rewritten tokens.json an image field, when present, names
\* a file that exists.
C5_AsStated ==
    pc = "c_done" =>
        \A t \in Keys(rootTokensJson) :
            rootTokensJson.data[t].image # NoField =>
                Exists(fs, rootTokensJson.data[t].image)

\* C6: in the rewritten tokens.json audio is null exactly when
\* assets/audio/<id>.mp3 is not on disk, and is that path otherwise.
C6_AudioNullIffNoMp3 ==
    pc = "c_done" =>
        \A t \in Keys(rootTokensJson) :
            /\ (rootTokensJson.data[t].audio = Null) = ~Exists(fs, AudioOut(t))
            /\ Exists(fs, AudioOut(t)) => rootTokensJson.data[t].audio = AudioOut(t)

\* an entry that held an audio path, whose encoder run failed and left no MP3
C6_Witness ==
    /\ pc = "c_done"
    /\ \E k \in Events("audio") :
        /\ log[k].res = "error"
        /\ tableBefore.data[log[k].tok].audio = AudioOut(log[k].tok)
        /\ ~Exists(fs, AudioOut(log[k].tok))
        /\ rootTokensJson.data[log[k].tok].audio = Null

\* C9 as stated: a placeholder the converter creates is filled with the colour the
\* memory-type scheme gives the token's SF_MemoryType (gray when the type is absent
\* or unknown) and carries the token id.
C9_AsStated ==
    \A t \in Keys(tokens) :
        (Exists(fs, ImageOut(t)) /\ fs[ImageOut(t)].made = "placeholder") =>
            /\ fs[ImageOut(t)].fill = SchemeColor(tokens.data[t])
            /\ fs[ImageOut(t)].text = t

\* C10: a failed conversion never ends the pass: the script stops early only in
\* the placeholder step; once a phase is over every token went through it; and a
\* finished run has rewritten tokens.json; after a failed conversion the script
\* is in the loop it was in, or further on.
C10_ConversionErrorsDoNotStop ==
    /\ pc = "c_crashed" => log[Len(log)].ev = "placeholder"
    /\ pc \in {"c_placeholders", "c_audio_check", "c_audio", "c_rewrite", "c_done"} =>
          \A t \in Keys(tokens) : \E k \in Events("image") : log[k].tok = t
    /\ (pc \in {"c_rewrite", "c_done"} /\ ffmpeg_available) =>
          \A t \in Keys(tokens) : \E k \in Events("audio") : log[k].tok = t
    /\ pc = "c_done" => Events("rewrite") # {} /\ rootTokensJson = tokens
    /\ (log # <<>> /\ log[Len(log)].ev \in {"image", "audio"}
            /\ log[Len(log)].res \in {"error", "error_truncated"}) =>
          pc \in {"c_images", "c_placeholders", "c_audio_check", "c_audio",
                  "c_rewrite", "c_done"}

\* the first token fails in both phases, the second is converted in both
C10_Witness ==
    /\ pc = "c_done"
    /\ \E j, k \in Events("image") :
          j < k /\ log[j].res # "ok" /\ log[j].res # "missing" /\ log[k].res = "ok"
    /\ \E j, k \in Events("audio") :
          j < k /\ log[j].res # "ok" /\ log[j].res # "missing" /\ log[k].res = "ok"

\* C11 as stated (asset converter): once the token database is loaded the run goes
\* through all its phases to the rewrite; no failure of a per-token step ends it early.
C11_AsStated ==
    tokens.exists => pc # "c_crashed"

\* C16: the rewrite of tokens.json changes nothing but image and audio: the token
\* ids, their order and every other field are those of the file the run loaded.
C16_RewriteKeepsOtherFields ==
    pc = "c_done" =>
        /\ rootTokensJson.exists
        /\ rootTokensJson.keys = tableBefore.keys
        /\ \A t \in Keys(tableBefore) :
              rootTokensJson.data[t].mtype = tableBefore.data[t].mtype

\* a finished run that set the image and the audio field of a token with a memory type
C16_Witness ==
    /\ pc = "c_done"
    /\ \E t \in Keys(tableBefore) :
        /\ tableBefore.data[t].mtype # NoField
        /\ tableBefore.data[t].image = NoField
        /\ rootTokensJson.data[t].image = ImageOut(t)
        /\ tableBefore.data[t].audio = NoField
        /\ rootTokensJson.data[t].audio = AudioOut(t)

----------------------------------------------------------------------------
(* Claims about the QR generator and the sync helper *)

\* the layout each script names its files by
MadeSuffix(made) ==
    CASE made = "qr" -> Plain
      [] made = "qr-labeled" -> Labeled
      [] made = "qr-color" -> Coloured

Generated(files) ==
    {p \in DOMAIN files : files[p].made \in {"qr", "qr-labeled", "qr-color"}}

\* C3: every QR code the scripts wrote (plain, labeled, coloured, and the sync
\* helper's) carries as its payload exactly the token id X its file is named for:
\* the file is qr-codes/<payload><suffix of its layout>.
C3_PayloadIsTokenId ==
    \A p \in Generated(fs) : p = QRPath(fs[p].text, MadeSuffix(fs[p].made))

\* after generate-qr in its "all" mode, a token whose id has an upper-case
\* spelling of its own has its three files, the coloured one in its type's colour
C3_Witness ==
    /\ lastOp[1] = "generate-qr" /\ lastOp[2] = "3"
    /\ \E t \in Keys(LoadTokens(dataTokensJson, rootTokensJson)) :
        /\ Upper(t) # t
        /\ \A sfx \in Suffixes :
              /\ Exists(fs, QRPath(t, sfx))
              /\ fs[QRPath(t, sfx)].made \in {"qr", "qr-labeled", "qr-color"}
              /\ fs[QRPath(t, sfx)].text = t
        /\ fs[QRPath(t, Coloured)].fill # Black

\* C4: a run of generate-qr (in any mode) or of the sync helper that repeats the
\* run just before it, the token table unchanged in between, leaves the set of
\* file names as the first run left it, whatever qr-codes/ held at the start.
C4_SameNamesOnSecondRun ==
    [][lastOp'[3] = "again" => DOMAIN fs' = DOMAIN fs]_vars

\* a second sync run in a row, after the first removed a file and wrote one
C4_Witness ==
    /\ lastOp = <<"sync", "", "again">>
    /\ log[1].res = "return 0"
    /\ \E t \in Keys(LoadTokens(dataTokensJson, rootTokensJson)) :
          Exists(fs, QRPath(t, Plain)) /\ fs[QRPath(t, Plain)].made = "qr"
    /\ \E p \in DOMAIN fs : p[Len(p)] = ".txt"

\* C7 as stated: when a token whose qr-codes/<id>.png had been generated is
\* removed from the token table, the next run of the sync helper deletes that
\* file, whichever tokens (if any) remain.
C7_AsStated ==
    [][(/\ lastOp[1] = "remove"
        /\ lastOp'[1] = "sync"
        /\ Exists(fs, QRPath(lastOp[2], Plain))
        /\ fs[QRPath(lastOp[2], Plain)].made = "qr")
          => ~Exists(fs', QRPath(lastOp[2], Plain))]_vars

\* C8 as stated: a run of the sync helper deletes no generated file of a token
\* that is in the token table, be it <id>.png, <id>_labeled.png or <id>_color.png.
C8_AsStated ==
    [][lastOp'[1] = "sync" =>
         \A t \in Keys(LoadTokens(dataTokensJson, rootTokensJson)) :
            \A sfx \in Suffixes :
               (/\ Exists(fs, QRPath(t, sfx))
                /\ fs[QRPath(t, sfx)].made \in {"qr", "qr-labeled", "qr-color"}
                /\ fs[QRPath(t, sfx)].text = t)
                  => Exists(fs', QRPath(t, sfx))]_vars

----------------------------------------------------------------------------
(* Claims about the sync helper's git commands *)

CmdAt(k) == <<log[k].tok, log[k].path>>

\* the places of the log where command c of directory d was issued
Issued(d, c) == {k \in 1..Len(log) : log[k].ev = "cmd" /\ CmdAt(k) = <<d, c>>}

SyncEnded == pc \in {"s_return0", "s_return1", "s_crashed"}

\* the order the claim gives the commands of sync_submodule in
ClaimedOrder ==
    << <<Data, Status>>, <<Data, AddTokens>>, <<Data, CommitTokens>>,
       <<Data, PushShared>>, <<Data, PullRebase>>, <<Parent, AddData>>,
       <<Parent, CommitReference>> >>

OnlyOnChanges == {<<Data, AddTokens>>, <<Data, CommitTokens>>, <<Data, PushShared>>}

\* C17: when sync_submodule returns, the commands it issued are, with a submodule:
\* status; add, commit, push exactly when status reported changes; pull --rebase,
\* once, after the push; add data and commit in the parent; and without a
\* submodule: submodule init and submodule update, nothing else.
C17_SubmoduleCommandOrder ==
    pc = "s_load" =>
        [k \in 1..Len(log) |-> CmdAt(k)] =
            IF git.submodule
            THEN SelectSeq(ClaimedOrder,
                           LAMBDA c : c \notin OnlyOnChanges
                                        \/ Process(git, Data, Status).stdout # <<>>)
            ELSE << <<Parent, SubmoduleInit>>, <<Parent, SubmoduleUpdate>> >>

\* sync_submodule has returned after local changes were found and the push failed
C17_Witness ==
    /\ pc = "s_load"
    /\ has_local_changes
    /\ \E k \in Issued(Data, PushShared) : log[k].res = "exit 1"
    /\ Len(log) = 7

C15_AsStated ==
    /\ "--local" \in argv =>
          Issued(Data, PushShared) = {} /\ Issued(Parent, PushPages) = {}
    /\ (\E k \in 1..Len(log) : log[k].ev = "deploy") =>
          ("--deploy" \in argv /\ "--local" \notin argv)

\* the commands issued from the deploy's status check on
DeployCommands ==
    IF Issued(Parent, Status) = {} THEN <<>>
    ELSE LET first == CHOOSE k \in Issued(Parent, Status) : TRUE
         IN  SelectSeq([k \in 1..Len(log) |-> IF k > first THEN log[k] ELSE Event("", <<>>, <<>>, "")],
                       LAMBDA e : e.ev = "cmd")

\* C18: a finished deploy_to_github_pages: when its status check reported no changes
\* nothing is added, committed or pushed and the result is True; otherwise add -A,
\* commit and push origin main were issued in this order, and the result is True
\* exactly when the push succeeded.
C18_DeployOrderAndResult ==
    \A n \in 1..Len(log) :
        log[n].ev = "deploy" =>
            IF Process(git, Parent, Status).stdout = <<>>
            THEN /\ DeployCommands = <<>>
                 /\ log[n].res = "True"
            ELSE /\ Len(DeployCommands) >= 3
                 /\ [k \in 1..3 |-> DeployCommands[k].path] = <<AddAll, CommitSync, PushPages>>
                 /\ \A k \in 4..Len(DeployCommands) :
                       DeployCommands[k].path \notin {AddAll, CommitSync, PushPages}
                 /\ log[n].res = "True" <=> DeployCommands[3].res = "exit 0"

\* a deployment whose add and commit went through and whose push failed
C18_Witness ==
    /\ pc = "s_return0"
    /\ log[Len(log)] = Event("deploy", <<>>, <<>>, "False")
    /\ \E k \in Issued(Parent, PushPages) : log[k].res = "exit 1"
    /\ \E k \in Issued(Parent, CommitSync) : log[k].res = "exit 0"

----------------------------------------------------------------------------
(* Claims about the token file the scripts work on *)

NoTokenFile == ~dataTokensJson.exists /\ ~rootTokensJson.exists

UnchangedFiles == UNCHANGED <<fs, dataTokensJson, rootTokensJson>>

\* C12: with no token file present each script ends early and touches no file: the
\* converter exits 1 at its load step, the placeholder generator exits 1 and the QR
\* generator returns without generating, the sync helper returns 1 at its load step
\* without regenerating or deploying, and nothing follows an early end.
C12_NoTokenFileEndsEarly ==
    [][NoTokenFile =>
         /\ pc = "c_start" => (pc' = "c_exit1" /\ UnchangedFiles)
         /\ pc = "s_load" => (pc' = "s_return1" /\ UnchangedFiles)
         /\ pc = "idle" =>
               /\ UnchangedFiles
               /\ log'[1].res = IF lastOp'[1] = "placeholders" THEN "exit 1"
                                ELSE "no tokens"
         /\ pc \notin {"c_exit1", "s_return1"}]_vars

\* the sync helper has returned 1 with no token file, having run its git commands
\* and nothing else, in a run asked to deploy
C12_Witness ==
    /\ pc = "s_return1"
    /\ NoTokenFile
    /\ "--deploy" \in argv /\ "--local" \notin argv
    /\ git.submodule /\ Issued(Data, PullRebase) # {}
    /\ \A k \in 1..Len(log) : log[k].ev \in {"cmd", "load"}
    /\ Issued(Parent, Status) = {}

\* C20 as stated: the token file the converter reads and rewrites is the file the
\* other scripts load: when it has rewritten a table, that is the table they load;
\* when it found no file, they find none.
C20_AsStated ==
    /\ pc = "c_done" => LoadTokens(dataTokensJson, rootTokensJson) = rootTokensJson
    /\ pc = "c_exit1" => ~LoadTokens(dataTokensJson, rootTokensJson).exists

\* C13: a run of the placeholder generator leaves every file that was there as it
\* was, and a run that repeats the run before it, the token table unchanged,
\* creates nothing.
C13_PlaceholdersIdempotent ==
    [][lastOp'[1] = "placeholders" =>
         /\ \A p \in DOMAIN fs : Exists(fs', p) /\ fs'[p] = fs[p]
         /\ lastOp'[3] = "again" => fs' = fs]_vars

\* after the second run in a row: an earlier picture of one token is still there,
\* another token has the picture the first run drew, and so has placeholder.jpg
C13_Witness ==
    /\ lastOp = <<"placeholders", "", "again">>
    /\ \E t, u \in Keys(LoadTokens(dataTokensJson, rootTokensJson)) :
          /\ Exists(fs, ImageOut(t)) /\ fs[ImageOut(t)] = OldImage
          /\ Exists(fs, ImageOut(u)) /\ fs[ImageOut(u)].made = "create_placeholders"
    /\ Exists(fs, GenericPath) /\ fs[GenericPath] = GenericPlaceholder

----------------------------------------------------------------------------
(* Claims about the placeholder generator *)

\* C19: the lines the word wrap produced, read in order, hold exactly the words of the
\* title in their order, none dropped or repeated, and every line is at most 20
\* characters long or is a single word.
C19_WrapKeepsWords ==
    pc = "w_done" =>
        /\ Concat([k \in 1..Len(lines) |-> Split(lines[k])]) = Split(title)
        /\ \A k \in 1..Len(lines) :
              Len(lines[k]) <= 20 \/ Len(Split(lines[k])) = 1

\* a title of three words whose middle word is longer than a line: it gets a line
\* of its own, between the lines of the words around it
C19_Witness ==
    /\ pc = "w_done"
    /\ Len(lines) = 3
    /\ Len(lines[2]) > 20
    /\ Len(lines[1]) < 20 /\ Len(lines[3]) < 20
    /\ Len(title) > Len(Join(Split(title)))

====
